---------------------------- MODULE Spec2Model ----------------------------
(***************************************************************************)
(* A model of index.js: one block-construction run (miningFunction).       *)
(*                                                                         *)
(* Byte buffers are sequences of chunks.  A chunk stands for a run of      *)
(* `len` bytes: a little-endian integer or a run of raw bytes ("lit"), or  *)
(* a SHA-256d digest ("dh") of the buffer `s`.  The digest is idealised as *)
(* collision free: two digests are equal iff their inputs are.  `rev`      *)
(* tells that the bytes of the chunk are in reversed order.                *)
(*                                                                         *)
(* Amounts that go through ito64b are pairs [hi, lo] in base 10^8          *)
(* (hi * 10^8 + lo, 0 <= lo < 10^8), because the reward of the code does   *)
(* not fit the integers of the model checker.                              *)
(***************************************************************************)
EXTENDS Integers, Sequences, FiniteSets, TLC

VARIABLES files, pc, caller, txInfo, idx, permWieght, reward, permittingtxs,
          permtxIds, permittedWTxIds, netReward, txIds, wTxIds, witCommit,
          cbTx, padTxIds, Bh, tried, powResult, output, leaves, mkr, ser

vars == <<files, pc, caller, txInfo, idx, permWieght, reward, permittingtxs,
          permtxIds, permittedWTxIds, netReward, txIds, wTxIds, witCommit,
          cbTx, padTxIds, Bh, tried, powResult, output, leaves, mkr, ser>>

-----------------------------------------------------------------------------
(* Bounds *)

\* files in the mempool directory
MaxTx == 3
\* the largest value writeUInt32LE accepts (0xffffffff in the code), scaled
MaxU32 == 2
\* inputs of the transactions of the serializer specification
MaxIn == 2
\* bytes of a header hash and of the target that the model keeps
HashLen == 3
\* leaves of the trees of the Merkle specification
MaxLeaves == 6

-----------------------------------------------------------------------------
(* Program constants *)

MaxFiles == 4200
MaxWeight == 3999300
\* let reward = 12.5, kept in halves: 25 halves
SubsidyHalves == 25
\* reward * 100000000, per half
SatPerHalf == 50000000
SatPerCoin == 100000000
HeaderVersion == 7
HeaderBits == 520159231
\* Math.floor(Date.now() / 1000): one value of the clock
Timestamp == 1713000000

-----------------------------------------------------------------------------
(* Codec *)

\* a run of len bytes holding the number (or the raw bytes named by) n
Lit(len, n) == [k |-> "lit", len |-> len, n |-> n, hi |-> 0, rev |-> FALSE, s |-> <<>>]

\* Buffer.from(hexString, "hex") and buffer.toString("hex"): a hex string is
\* kept as a record around the bytes it encodes, two characters per byte
Hex(buf) == [hex |-> buf]
FromHex(h) == h.hex
HexCat(a, b) == [hex |-> a.hex \o b.hex]

RECURSIVE BufLen(_)
BufLen(buf) == IF buf = <<>> THEN 0 ELSE Head(buf).len + BufLen(Tail(buf))

HexChars(h) == 2 * BufLen(h.hex)

\* raw bytes named by tag n; tag 0 is a run of zero bytes
Raw(len, n) == IF len = 0 THEN <<>> ELSE <<Lit(len, n)>>

Zero32 == Hex(Raw(32, 0))

iTo16b(n) == <<Lit(2, n)>>

iTo32b(n) == <<Lit(4, n)>>

\* writeUInt32LE throws ERR_OUT_OF_RANGE outside [0, 0xffffffff]
U32Fits(n) == n >= 0 /\ n <= MaxU32

\* an amount [hi, lo]; BigInt(n) and writeBigUInt64LE
ito64b(v) == <<[k |-> "lit", len |-> 8, n |-> v.lo, hi |-> v.hi, rev |-> FALSE, s |-> <<>>]>>

\* writeBigUInt64LE throws on a negative value
U64Fits(v) == v.hi >= 0

SatNorm(hi, lo) == [hi |-> hi + (lo \div SatPerCoin), lo |-> lo % SatPerCoin]
ToSat(n) == SatNorm(0, n)
SatInt(v) == v.hi * SatPerCoin + v.lo

\* every number of the model is below 2^31, so the 8-byte form (n >
\* 0xffffffff) is never needed
serInt(n) ==
  IF n < 253 THEN <<Lit(1, n)>>
  ELSE IF n <= 65535 THEN <<Lit(1, 253)>> \o iTo16b(n)
  ELSE <<Lit(1, 254)>> \o iTo32b(n)

\* sha(sha(data)): a 32-byte digest of data
doubleHash(data) == <<[k |-> "dh", len |-> 32, n |-> 0, hi |-> 0, rev |-> FALSE, s |-> data]>>

\* a chunk that reads the same in both directions
Palindrome(c) == c.len <= 1 \/ (c.k = "lit" /\ c.n = 0 /\ c.hi = 0)

RevChunk(c) == IF Palindrome(c) THEN c ELSE [c EXCEPT !.rev = ~c.rev]

RECURSIVE reversebyte(_)
reversebyte(data) ==
  IF data = <<>> THEN <<>>
  ELSE Append(reversebyte(Tail(data)), RevChunk(Head(data)))

chkSegwit(tx) == \E i \in 1..Len(tx.vin) : Len(tx.vin[i].witness) > 0

-----------------------------------------------------------------------------
(* Serializer *)

RECURSIVE SerInputs(_)
SerInputs(vin) ==
  IF vin = <<>> THEN <<>>
  ELSE reversebyte(FromHex(Head(vin).txid)) \o iTo32b(Head(vin).vout)
       \o serInt(BufLen(FromHex(Head(vin).scriptsig)))
       \o FromHex(Head(vin).scriptsig)
       \o iTo32b(Head(vin).sequence) \o SerInputs(Tail(vin))

RECURSIVE SerOutputs(_)
SerOutputs(vout) ==
  IF vout = <<>> THEN <<>>
  ELSE ito64b(Head(vout).value)
       \o serInt(BufLen(FromHex(Head(vout).scriptpubkey)))
       \o FromHex(Head(vout).scriptpubkey) \o SerOutputs(Tail(vout))

RECURSIVE SerItems(_)
SerItems(witness) ==
  IF witness = <<>> THEN <<>>
  ELSE serInt(BufLen(FromHex(Head(witness)))) \o FromHex(Head(witness))
       \o SerItems(Tail(witness))

\* a slip: no count field for an input whose witness is empty
RECURSIVE SerWitnessSkipEmpty(_)
SerWitnessSkipEmpty(vin) ==
  IF vin = <<>> THEN <<>>
  ELSE (IF Head(vin).witness = <<>> THEN <<>>
        ELSE serInt(Len(Head(vin).witness)) \o SerItems(Head(vin).witness))
       \o SerWitnessSkipEmpty(Tail(vin))

RECURSIVE SerWitness(_)
SerWitness(vin) ==
  IF vin = <<>> THEN <<>>
  ELSE serInt(Len(Head(vin).witness)) \o SerItems(Head(vin).witness)
       \o SerWitness(Tail(vin))

MarkerFlag == <<Lit(1, 0), Lit(1, 1)>>

serTransactions(tx) ==
  iTo32b(tx.version) \o serInt(Len(tx.vin)) \o SerInputs(tx.vin)
  \o serInt(Len(tx.vout)) \o SerOutputs(tx.vout) \o iTo32b(tx.locktime)

segwitSerialize(tx) ==
  iTo32b(tx.version)
  \o (IF chkSegwit(tx) THEN MarkerFlag ELSE <<>>)
  \o serInt(Len(tx.vin)) \o SerInputs(tx.vin)
  \o serInt(Len(tx.vout)) \o SerOutputs(tx.vout)
  \o (IF chkSegwit(tx) THEN SerWitness(tx.vin) ELSE <<>>)
  \o iTo32b(tx.locktime)

baseSize(tx) == BufLen(serTransactions(tx))

witnessSize(tx) ==
  IF ~chkSegwit(tx) THEN 0 ELSE BufLen(MarkerFlag \o SerWitness(tx.vin))

\* ito64b of an output value throws when the value is negative
RECURSIVE OutputsFit(_)
OutputsFit(vout) ==
  vout = <<>> \/ (U64Fits(Head(vout).value) /\ OutputsFit(Tail(vout)))

\* a slip: the nonce left out of the serialization
blockHeaderNoNonce(bh) ==
  iTo32b(bh.version) \o FromHex(bh.prev_block_hash) \o FromHex(bh.merkle_root)
  \o iTo32b(bh.timestamp) \o iTo32b(bh.bits)

blockHeaderSerialdata(bh) ==
  iTo32b(bh.version) \o FromHex(bh.prev_block_hash) \o FromHex(bh.merkle_root)
  \o iTo32b(bh.timestamp) \o iTo32b(bh.bits) \o iTo32b(bh.nonce)

-----------------------------------------------------------------------------
(* The mempool: the transactions the files can hold *)

Input(txid, vout, value, scriptsig, witness, sequence) ==
  [txid |-> txid, vout |-> vout, prevout |-> [value |-> value],
   scriptsig |-> scriptsig, witness |-> witness, sequence |-> sequence]

Prevout(scriptpubkey, value) == [scriptpubkey |-> scriptpubkey, value |-> value]

Transaction(version, locktime, vin, vout) ==
  [version |-> version, locktime |-> locktime, vin |-> vin, vout |-> vout]

\* a transaction with one input and one output
Tx1(tag, inValue, outValue, sigLen, spkLen, witness) ==
  Transaction(2, 0,
    <<Input(Hex(Raw(32, tag)), 0, ToSat(inValue), Hex(Raw(sigLen, tag)), witness, 1)>>,
    <<Prevout(Hex(Raw(spkLen, tag)), ToSat(outValue))>>)

\* fee and weight: A 100/400, T 60/240 (the ratio of A), Z 0/300,
\* D 400/3999000, N1 -1/240, N2 -20/400
TxA == Tx1(1, 1100, 1000, 10, 30, <<>>)
TxT == Tx1(2, 60, 0, 0, 0, <<>>)
TxZ == Tx1(3, 500, 500, 5, 10, <<>>)
TxD == Tx1(5, 400, 0, 0, 999686, <<>>)
TxN1 == Tx1(7, 0, 1, 0, 0, <<>>)
TxN2 == Tx1(8, 10, 30, 10, 30, <<>>)
\* a segwit transaction, its second input without witness: fee 300, weight 807
TxB ==
  Transaction(1, 0,
    <<Input(Hex(Raw(32, 21)), 1, ToSat(500), Hex(<<>>),
            <<Hex(Raw(72, 22)), Hex(Raw(33, 23))>>, 1),
      Input(Hex(Raw(32, 24)), 0, ToSat(200), Hex(Raw(20, 25)), <<>>, 1)>>,
    <<Prevout(Hex(Raw(22, 26)), ToSat(300)), Prevout(Hex(Raw(22, 27)), ToSat(100))>>)

\* the names of the files, and JSON.parse of a file into a Transaction
FileNames == {"A", "B", "D", "T", "Z", "N1", "N2"}

ParseTx(file) ==
  CASE file = "A" -> TxA
    [] file = "B" -> TxB
    [] file = "D" -> TxD
    [] file = "T" -> TxT
    [] file = "Z" -> TxZ
    [] file = "N1" -> TxN1
    [] file = "N2" -> TxN2

\* the directory listings: up to MaxTx different files, in any order
RECURSIVE Listings(_)
Listings(n) ==
  IF n = 0 THEN {<<>>}
  ELSE LET shorter == Listings(n - 1)
       IN shorter \cup {Append(l, f) : <<l, f>> \in
                          {p \in shorter \X FileNames :
                             /\ Len(p[1]) = n - 1
                             /\ \A i \in 1..Len(p[1]) : p[1][i] # p[2]}}

-----------------------------------------------------------------------------
(* Selector *)

RECURSIVE SumIn(_)
SumIn(vin) ==
  IF vin = <<>> THEN 0 ELSE SatInt(Head(vin).prevout.value) + SumIn(Tail(vin))

RECURSIVE SumOut(_)
SumOut(vout) ==
  IF vout = <<>> THEN 0 ELSE SatInt(Head(vout).value) + SumOut(Tail(vout))

\* let fee = 0; fee += vin.prevout.value; fee -= vout.value
Fee(tx) == SumIn(tx.vin) - SumOut(tx.vout)

TxId(tx) == Hex(reversebyte(doubleHash(serTransactions(tx))))

WTxId(tx) == Hex(reversebyte(doubleHash(segwitSerialize(tx))))

TxInfo(tx) ==
  [txid |-> TxId(tx), wtxid |-> WTxId(tx), fee |-> Fee(tx),
   weight |-> witnessSize(tx) + baseSize(tx) * 4]

\* the loop over the files: it stops after MaxFiles files
RECURSIVE ReadFiles(_, _)
ReadFiles(fs, cnt) ==
  IF fs = <<>> \/ cnt + 1 > MaxFiles THEN <<>>
  ELSE <<TxInfo(ParseTx(Head(fs)))>> \o ReadFiles(Tail(fs), cnt + 1)

Sgn(x) == IF x > 0 THEN 1 ELSE IF x < 0 THEN -1 ELSE 0

\* Math.max(...txInfo.map((tx) => tx.fee / tx.weight)): the entry whose
\* ratio is the maximum; the ratios are compared exactly, as fractions
MaxFeePerWeight(info) ==
  CHOOSE t \in {info[i] : i \in 1..Len(info)} :
    \A i \in 1..Len(info) : info[i].fee * t.weight <= t.fee * info[i].weight

\* the sign of b.fee / b.weight / max - a.fee / a.weight / max.  With
\* max = 0 every quotient is -Infinity or NaN and the difference is NaN,
\* which Array.prototype.sort takes as 0.
Comparator(a, b, max) ==
  IF max.fee = 0 THEN 0
  ELSE IF max.fee > 0 THEN Sgn(b.fee * a.weight - a.fee * b.weight)
  ELSE Sgn(a.fee * b.weight - b.fee * a.weight)

\* Array.prototype.sort is stable: x goes behind every entry that the
\* comparator does not put behind x
RECURSIVE Insert(_, _, _)
Insert(sorted, x, max) ==
  IF sorted = <<>> THEN <<x>>
  ELSE IF Comparator(sorted[Len(sorted)], x, max) > 0
       THEN Append(Insert(SubSeq(sorted, 1, Len(sorted) - 1), x, max),
                   sorted[Len(sorted)])
       ELSE Append(sorted, x)

RECURSIVE SortFrom(_, _, _)
SortFrom(sorted, rest, max) ==
  IF rest = <<>> THEN sorted
  ELSE SortFrom(Insert(sorted, Head(rest), max), Tail(rest), max)

Rank(info) ==
  IF Len(info) > 0 THEN SortFrom(<<>>, info, MaxFeePerWeight(info)) ELSE info

\* a slip in the test of the budget: the weight of the candidate left out
FitsAnyWeight(budget, tx) == budget >= 0

\* a slip in the test of the budget: the exact fit refused
FitsStrictly(budget, tx) == budget > tx.weight

\* if (permWieght >= tx.weight)
Fits(budget, tx) == budget >= tx.weight

\* reward * 100000000, reward counted in halves
RewardSat(halves) == [hi |-> halves \div 2, lo |-> (halves % 2) * SatPerHalf]

-----------------------------------------------------------------------------
(* Merkle engine: a node is kept as its data *)

\* a slip: the id taken as the leaf without the reversal
newMerkLeafAsIs(data) == data

newMerkLeaf(data) == reversebyte(data)

newMerknode(lnode, rnode) == doubleHash(lnode \o rnode)

RECURSIVE LeafNodes(_)
LeafNodes(ids) ==
  IF ids = <<>> THEN <<>>
  ELSE <<newMerkLeaf(FromHex(Head(ids)))>> \o LeafNodes(Tail(ids))

\* a slip: the last node of an odd level handed up as it is, not paired
\* with itself
RECURSIVE LevelLoopPromote(_, _, _)
LevelLoopPromote(nodes, i, newLevel) ==
  IF i > Len(nodes) THEN newLevel
  ELSE IF i = Len(nodes) THEN Append(newLevel, nodes[i])
  ELSE LevelLoopPromote(nodes, i + 2,
                        Append(newLevel, newMerknode(nodes[i], nodes[i + 1])))

\* for (let i = 0; i < nodes.length; i += 2), i counted from 1 here; the
\* push inside the loop changes the nodes the loop runs over
RECURSIVE LevelLoop(_, _, _)
LevelLoop(nodes, i, newLevel) ==
  IF i > Len(nodes) THEN newLevel
  ELSE LET padded == IF Len(nodes) % 2 # 0
                     THEN Append(nodes, nodes[Len(nodes)])
                     ELSE nodes
       IN LevelLoop(padded, i + 2,
                    Append(newLevel, newMerknode(padded[i], padded[i + 1])))

RECURSIVE TreeLoop(_)
TreeLoop(nodes) ==
  IF Len(nodes) > 1 THEN TreeLoop(LevelLoop(nodes, 1, <<>>)) ELSE nodes

\* the data of the node newMerkTree returns, for one leaf or more
newMerkTree(ids) == TreeLoop(LeafNodes(ids))[1]

witnessMerk(wtxids) ==
  Hex(doubleHash(FromHex(HexCat(Hex(newMerkTree(<<Zero32>> \o wtxids)), Zero32))))

-----------------------------------------------------------------------------
(* Coinbase builder *)

CoinbaseScriptSig == Hex(Raw(27, 100))
PayoutScript == Hex(Raw(22, 101))
CommitPrefix == HexCat(Hex(Raw(2, 102)), Hex(Raw(4, 103)))

conibaseCreate(reward_, commit) ==
  Transaction(1, 0,
    <<Input(Zero32, MaxU32, reward_, CoinbaseScriptSig, <<Zero32>>, MaxU32)>>,
    <<Prevout(PayoutScript, reward_), Prevout(HexCat(CommitPrefix, commit), ToSat(0))>>)

NoTx == Transaction(0, 0, <<>>, <<>>)

-----------------------------------------------------------------------------
(* Proof of work *)

\* the first HashLen bytes of the target 0000ffff00..00
TargetByte(i) == IF i = 3 \/ i = 4 THEN 255 ELSE 0
tgtBytes == [i \in 1..HashLen |-> TargetByte(i)]

\* reversebyte(sha(sha(serialized))) of a header: one of these byte
\* arrays, which one is not known
HashVals ==
  {tgtBytes, [tgtBytes EXCEPT ![3] = 254], [tgtBytes EXCEPT ![1] = 1, ![3] = 0]}

RECURSIVE CompFrom(_, _, _)
CompFrom(a, b, i) ==
  IF i > Len(a) THEN 0
  ELSE IF a[i] < b[i] THEN -1
  ELSE IF a[i] > b[i] THEN 1
  ELSE CompFrom(a, b, i + 1)

\* a slip: equal arrays reported as a smaller first array
compArraysOrEqual(a, b) == IF CompFrom(a, b, 1) = 1 THEN 1 ELSE -1

\* both arrays have the same length here, so it does not throw
compArrays(a, b) == CompFrom(a, b, 1)

-----------------------------------------------------------------------------
(* The run: miningFunction *)

BlockHeader(version, prev_block_hash, merkle_root, timestamp, bits, nonce) ==
  [version |-> version, prev_block_hash |-> prev_block_hash,
   merkle_root |-> merkle_root, timestamp |-> timestamp, bits |-> bits,
   nonce |-> nonce]

NoOutput == [written |-> FALSE, header |-> Hex(<<>>), coinbase |-> Hex(<<>>), ids |-> <<>>]

\* nothing serialized on its own
NoSer == [tx |-> NoTx, serialized |-> <<>>, segSeral |-> <<>>, info |-> TxInfo(NoTx)]

Init ==
  /\ files \in Listings(MaxTx)
  /\ pc = "prioritize"
  /\ caller = "miningFunction"
  /\ txInfo = <<>>
  /\ idx = 1
  /\ permWieght = MaxWeight
  /\ reward = SubsidyHalves
  /\ permittingtxs = <<>>
  /\ permtxIds = <<>>
  /\ permittedWTxIds = <<>>
  /\ netReward = ToSat(0)
  /\ txIds = <<>>
  /\ wTxIds = <<>>
  /\ witCommit = Hex(<<>>)
  /\ cbTx = NoTx
  /\ padTxIds = <<>>
  /\ Bh = BlockHeader(HeaderVersion, Zero32, Hex(<<>>), Timestamp, HeaderBits, 0)
  /\ tried = <<>>
  /\ powResult = "none"
  /\ output = NoOutput
  /\ ser = NoSer
  /\ leaves = <<>>
  /\ mkr = <<>>

\* prioritize, up to the acceptance loop: the files are read and ranked
ReadMempool ==
  /\ pc = "prioritize"
  /\ txInfo' = Rank(ReadFiles(files, 0))
  /\ idx' = 1
  /\ permWieght' = MaxWeight
  /\ reward' = SubsidyHalves
  /\ permittingtxs' = <<>>
  /\ permtxIds' = <<>>
  /\ permittedWTxIds' = <<>>
  /\ pc' = "accept"
  /\ UNCHANGED <<files, caller, netReward, txIds, wTxIds, witCommit, cbTx,
                 padTxIds, Bh, tried, powResult, output, leaves, mkr, ser>>

\* one turn of for (const tx of txInfo)
AcceptStep ==
  /\ pc = "accept"
  /\ idx <= Len(txInfo)
  /\ LET tx == txInfo[idx]
     IN IF Fits(permWieght, tx)
        THEN /\ permittingtxs' = Append(permittingtxs, tx)
             /\ permWieght' = permWieght - tx.weight
             /\ permtxIds' = Append(permtxIds, tx.txid)
             /\ permittedWTxIds' = Append(permittedWTxIds, tx.wtxid)
             /\ reward' = reward + 2 * tx.fee
        ELSE UNCHANGED <<permittingtxs, permWieght, permtxIds, permittedWTxIds,
                         reward>>
  /\ idx' = idx + 1
  /\ UNCHANGED <<files, pc, caller, txInfo, netReward, txIds, wTxIds, witCommit,
                 cbTx, padTxIds, Bh, tried, powResult, output, leaves, mkr, ser>>

\* return [reward * 100000000, permtxIds, permittedWTxIds].  miningFunction
\* keeps the reward and the ids and calls conibaseCreate, which calls
\* witnessMerk, which calls prioritize again and keeps the witness ids.
PrioritizeReturn ==
  /\ pc = "accept"
  /\ idx > Len(txInfo)
  /\ IF caller = "miningFunction"
     THEN /\ netReward' = RewardSat(reward)
          /\ txIds' = permtxIds
          /\ caller' = "witnessMerk"
          /\ pc' = "prioritize"
          /\ UNCHANGED wTxIds
     ELSE /\ wTxIds' = permittedWTxIds
          /\ pc' = "witnessMerk"
          /\ UNCHANGED <<netReward, txIds, caller>>
  /\ UNCHANGED <<files, txInfo, idx, permWieght, reward, permittingtxs,
                 permtxIds, permittedWTxIds, witCommit, cbTx, padTxIds, Bh,
                 tried, powResult, output, leaves, mkr, ser>>

\* the rest of witnessMerk: the commitment over the witness ids
WitnessMerk ==
  /\ pc = "witnessMerk"
  /\ witCommit' = witnessMerk(wTxIds)
  /\ pc' = "conibaseCreate"
  /\ UNCHANGED <<files, caller, txInfo, idx, permWieght, reward, permittingtxs,
                 permtxIds, permittedWTxIds, netReward, txIds, wTxIds, cbTx,
                 padTxIds, Bh, tried, powResult, output, leaves, mkr, ser>>

\* the rest of conibaseCreate
ConibaseCreate ==
  /\ pc = "conibaseCreate"
  /\ cbTx' = conibaseCreate(netReward, witCommit)
  /\ pc' = "merkle"
  /\ UNCHANGED <<files, caller, txInfo, idx, permWieght, reward, permittingtxs,
                 permtxIds, permittedWTxIds, netReward, txIds, wTxIds,
                 witCommit, padTxIds, Bh, tried, powResult, output, leaves, mkr, ser>>

\* serTransactions(cbTx), padTxIds, newMerkTree and Bh.merkle_root; the
\* serialization throws when the reward is negative
MerkleRoot ==
  /\ pc = "merkle"
  /\ IF OutputsFit(cbTx.vout)
     THEN /\ padTxIds' = <<TxId(cbTx)>> \o txIds
          /\ Bh' = [Bh EXCEPT !.merkle_root = Hex(newMerkTree(<<TxId(cbTx)>> \o txIds))]
          /\ pc' = "proofOfWork"
     ELSE /\ pc' = "threwSerialize"
          /\ UNCHANGED <<padTxIds, Bh>>
  /\ UNCHANGED <<files, caller, txInfo, idx, permWieght, reward, permittingtxs,
                 permtxIds, permittedWTxIds, netReward, txIds, wTxIds,
                 witCommit, cbTx, tried, powResult, output, leaves, mkr, ser>>

\* a slip: a new timestamp taken with every new nonce
IncNonceAndTime(bh) ==
  [bh EXCEPT !.nonce = bh.nonce + 1, !.timestamp = bh.timestamp + 1]

\* bh.nonce++
IncNonce(bh) == [bh EXCEPT !.nonce = bh.nonce + 1]

\* one turn of while (true) in proofOfWork: blockHeaderSerialdata throws
\* when the nonce does not fit 32 bits
PowStep ==
  /\ pc = "proofOfWork"
  /\ IF ~U32Fits(Bh.nonce)
     THEN /\ pc' = "threwProofOfWork"
          /\ UNCHANGED <<Bh, tried, powResult>>
     ELSE \E hash \in HashVals :
            /\ tried' = Append(tried, [nonce |-> Bh.nonce, hash |-> hash])
            /\ IF compArrays(hash, tgtBytes) = -1
               THEN /\ powResult' = "true"
                    /\ pc' = "write"
                    /\ UNCHANGED Bh
               ELSE IF Bh.nonce < 0 \/ Bh.nonce > MaxU32
               THEN /\ powResult' = "false"
                    /\ pc' = "done"
                    /\ UNCHANGED Bh
               ELSE /\ Bh' = IncNonce(Bh)
                    /\ UNCHANGED <<pc, powResult>>
  /\ UNCHANGED <<files, caller, txInfo, idx, permWieght, reward, permittingtxs,
                 permtxIds, permittedWTxIds, netReward, txIds, wTxIds,
                 witCommit, cbTx, padTxIds, output, leaves, mkr, ser>>

\* fs.writeFileSync("output.txt", ...)
WriteOutput ==
  /\ pc = "write"
  /\ output' = [written |-> TRUE,
                header |-> Hex(blockHeaderSerialdata(Bh)),
                coinbase |-> Hex(segwitSerialize(cbTx)),
                ids |-> padTxIds]
  /\ pc' = "done"
  /\ UNCHANGED <<files, caller, txInfo, idx, permWieght, reward, permittingtxs,
                 permtxIds, permittedWTxIds, netReward, txIds, wTxIds,
                 witCommit, cbTx, padTxIds, Bh, tried, powResult, leaves, mkr, ser>>

Next ==
  \/ ReadMempool
  \/ AcceptStep
  \/ PrioritizeReturn
  \/ WitnessMerk
  \/ ConibaseCreate
  \/ MerkleRoot
  \/ PowStep
  \/ WriteOutput

Spec == Init /\ [][Next]_vars

-----------------------------------------------------------------------------
(* newMerkTree alone, over every sequence of one to MaxLeaves ids *)

LeafIds == {Zero32, Hex(Raw(32, 1))}

RECURSIVE IdSeqs(_)
IdSeqs(n) ==
  IF n = 0 THEN {<<>>}
  ELSE LET shorter == IdSeqs(n - 1)
       IN shorter \cup {Append(l, id) : <<l, id>> \in
                          {p \in shorter \X LeafIds : Len(p[1]) = n - 1}}

MerkleInit ==
  /\ leaves \in IdSeqs(MaxLeaves) \ {<<>>}
  /\ pc = "newMerkTree"
  /\ mkr = <<>>
  /\ files = <<>>
  /\ caller = "newMerkTree"
  /\ txInfo = <<>>
  /\ idx = 1
  /\ permWieght = MaxWeight
  /\ reward = SubsidyHalves
  /\ permittingtxs = <<>>
  /\ permtxIds = <<>>
  /\ permittedWTxIds = <<>>
  /\ netReward = ToSat(0)
  /\ txIds = <<>>
  /\ wTxIds = <<>>
  /\ witCommit = Hex(<<>>)
  /\ cbTx = NoTx
  /\ padTxIds = <<>>
  /\ Bh = BlockHeader(HeaderVersion, Zero32, Hex(<<>>), Timestamp, HeaderBits, 0)
  /\ tried = <<>>
  /\ powResult = "none"
  /\ output = NoOutput
  /\ ser = NoSer

MerkleTree ==
  /\ pc = "newMerkTree"
  /\ mkr' = newMerkTree(leaves)
  /\ pc' = "returned"
  /\ UNCHANGED <<files, caller, txInfo, idx, permWieght, reward, permittingtxs,
                 permtxIds, permittedWTxIds, netReward, txIds, wTxIds,
                 witCommit, cbTx, padTxIds, Bh, tried, powResult, output, leaves,
                 ser>>

MerkleNext == MerkleTree

MerkleSpec == MerkleInit /\ [][MerkleNext]_vars

-----------------------------------------------------------------------------
(* The serializer alone (prioritize, one file), over transactions of one to *)
(* MaxIn inputs and one or two outputs                                     *)

\* the witness of an input: none, one item, two items, one empty item
WitnessChoices ==
  {<<>>, <<Hex(Raw(33, 41))>>, <<Hex(Raw(72, 42)), Hex(Raw(33, 43))>>, <<Hex(<<>>)>>}

InputChoices ==
  {Input(Hex(Raw(32, 31)), 0, ToSat(50), sig, wit, 1) :
     sig \in {Hex(<<>>), Hex(Raw(20, 32))}, wit \in WitnessChoices}

RECURSIVE InputSeqs(_)
InputSeqs(n) ==
  IF n = 0 THEN {<<>>}
  ELSE LET shorter == InputSeqs(n - 1)
       IN shorter \cup {Append(l, in) : <<l, in>> \in
                          {p \in shorter \X InputChoices : Len(p[1]) = n - 1}}

OutputChoices ==
  {<<Prevout(Hex(Raw(22, 33)), ToSat(10))>>,
   <<Prevout(Hex(Raw(22, 33)), ToSat(10)), Prevout(Hex(Raw(25, 34)), ToSat(20))>>}

SerInit ==
  /\ ser \in {[tx |-> Transaction(2, 0, vin, vout), serialized |-> <<>>,
               segSeral |-> <<>>, info |-> TxInfo(NoTx)] :
                vin \in InputSeqs(MaxIn) \ {<<>>}, vout \in OutputChoices}
  /\ pc = "serialize"
  /\ leaves = <<>>
  /\ mkr = <<>>
  /\ files = <<>>
  /\ caller = "prioritize"
  /\ txInfo = <<>>
  /\ idx = 1
  /\ permWieght = MaxWeight
  /\ reward = SubsidyHalves
  /\ permittingtxs = <<>>
  /\ permtxIds = <<>>
  /\ permittedWTxIds = <<>>
  /\ netReward = ToSat(0)
  /\ txIds = <<>>
  /\ wTxIds = <<>>
  /\ witCommit = Hex(<<>>)
  /\ cbTx = NoTx
  /\ padTxIds = <<>>
  /\ Bh = BlockHeader(HeaderVersion, Zero32, Hex(<<>>), Timestamp, HeaderBits, 0)
  /\ tried = <<>>
  /\ powResult = "none"
  /\ output = NoOutput

\* serialized, segSeral, txID, wtxID and the weight of one transaction
SerializeTx ==
  /\ pc = "serialize"
  /\ ser' = [tx |-> ser.tx,
             serialized |-> serTransactions(ser.tx),
             segSeral |-> segwitSerialize(ser.tx),
             info |-> TxInfo(ser.tx)]
  /\ pc' = "serialized"
  /\ UNCHANGED <<files, caller, txInfo, idx, permWieght, reward, permittingtxs,
                 permtxIds, permittedWTxIds, netReward, txIds, wTxIds,
                 witCommit, cbTx, padTxIds, Bh, tried, powResult, output,
                 leaves, mkr>>

SerNext == SerializeTx

SerSpec == SerInit /\ [][SerNext]_vars

(* Properties of the serializer *)

\* the items of the witness w from the j-th on, each behind its length
RECURSIVE ItemsFrom(_, _)
ItemsFrom(w, j) ==
  IF j > Len(w) THEN <<>>
  ELSE <<Lit(1, BufLen(w[j].hex))>> \o w[j].hex \o ItemsFrom(w, j + 1)

\* the witness stacks of the inputs from the i-th on: a count field for
\* every input, then its items
RECURSIVE StacksFrom(_, _)
StacksFrom(vin, i) ==
  IF i > Len(vin) THEN <<>>
  ELSE <<Lit(1, Len(vin[i].witness))>> \o ItemsFrom(vin[i].witness, 1)
       \o StacksFrom(vin, i + 1)

NoWitness(tx) == \A i \in 1..Len(tx.vin) : tx.vin[i].witness = <<>>

\* C11: without a non-empty witness segwitSerialize(tx) is
\* serTransactions(tx), so wtxid = txid and the witness size is 0; with one,
\* segwitSerialize puts 0x00, 0x01 right behind the version and, behind the
\* outputs, one witness count for every input, those of empty witness too.
C11_SegwitSerialization ==
  pc = "serialized" =>
    LET base == ser.serialized
        seg == ser.segSeral
        nb == Len(ser.serialized)
        wsize == ser.info.weight - 4 * BufLen(ser.serialized)
    IN IF NoWitness(ser.tx)
       THEN /\ seg = base
            /\ ser.info.wtxid = ser.info.txid
            /\ wsize = 0
       ELSE /\ seg[1] = base[1]
            /\ seg[1] = Lit(4, ser.tx.version)
            /\ seg[2] = Lit(1, 0)
            /\ seg[3] = Lit(1, 1)
            /\ SubSeq(seg, 4, nb + 1) = SubSeq(base, 2, nb - 1)
            /\ SubSeq(seg, nb + 2, Len(seg) - 1) = StacksFrom(ser.tx.vin, 1)
            /\ Len(seg) = nb + 2 + Len(StacksFrom(ser.tx.vin, 1))
            /\ seg[Len(seg)] = base[nb]
            /\ ser.info.wtxid # ser.info.txid
            /\ wsize = 2 + BufLen(StacksFrom(ser.tx.vin, 1))

\* a transaction of two inputs, the first without witness, the second with
\* two items
C11_Witness ==
  /\ pc = "serialized"
  /\ Len(ser.tx.vin) = 2
  /\ ser.tx.vin[1].witness = <<>>
  /\ Len(ser.tx.vin[2].witness) = 2

-----------------------------------------------------------------------------
(* Properties of the selector *)

RECURSIVE SumWeight(_)
SumWeight(infos) ==
  IF infos = <<>> THEN 0 ELSE Head(infos).weight + SumWeight(Tail(infos))

RECURSIVE SumFee(_)
SumFee(infos) ==
  IF infos = <<>> THEN 0 ELSE Head(infos).fee + SumFee(Tail(infos))

\* the acceptance loop of prioritize has run over every candidate
LoopDone == pc = "accept" /\ idx > Len(txInfo)

\* the ranked positions of the accepted candidates (the candidates differ)
AcceptedPos ==
  {k \in 1..Len(txInfo) : \E i \in 1..Len(permittingtxs) : permittingtxs[i] = txInfo[k]}

\* C1: the weights of the accepted transactions sum to at most the weight
\* budget 3999300, and the remaining budget is never negative, at any step
\* of the acceptance loop and after it.
C1_WeightWithinBudget ==
  /\ permWieght >= 0
  /\ SumWeight(permittingtxs) <= MaxWeight

\* the loop has ended with the budget used up to the last unit and with a
\* candidate refused
C1_Witness ==
  /\ LoopDone
  /\ permWieght = 0
  /\ Len(permittingtxs) = 2
  /\ Len(txInfo) = 3

SubsidySat == SatNorm(0, SubsidyHalves * SatPerHalf)

\* subsidy + fees, in satoshis
SubsidyPlus(fees) == SatNorm(SubsidySat.hi, SubsidySat.lo + fees)

\* C2: the reward prioritize returns to miningFunction, and the value of
\* the first output of the coinbase, is the subsidy in satoshis plus the sum
\* of the fees (in satoshis) of the accepted transactions.
C2_RewardIsSubsidyPlusFees ==
  /\ (pc = "prioritize" /\ caller = "witnessMerk")
       => netReward = SubsidyPlus(SumFee(permittingtxs))
  /\ pc = "merkle" => cbTx.vout[1].value = SubsidyPlus(SumFee(permittingtxs))

\* the place of x in the sequence seq
PosIn(seq, x) == CHOOSE k \in 1..Len(seq) : seq[k] = x

\* ranked holds the entries of input by falling fee / weight, entries of
\* one ratio in the order of input
RankedByRatio(ranked, input) ==
  /\ Len(ranked) = Len(input)
  /\ {ranked[i] : i \in 1..Len(ranked)} = {input[i] : i \in 1..Len(input)}
  /\ \A i, j \in 1..Len(ranked) :
       i < j =>
         /\ ranked[i].fee * ranked[j].weight >= ranked[j].fee * ranked[i].weight
         /\ ranked[i].fee * ranked[j].weight = ranked[j].fee * ranked[i].weight
              => PosIn(input, ranked[i]) < PosIn(input, ranked[j])

\* C3: the candidates are considered by falling fee / weight, ties in the
\* order of the input, whatever the sign of the largest ratio.
C3_RankedByPlainRatio ==
  pc = "accept" => RankedByRatio(txInfo, ReadFiles(files, 0))

RECURSIVE SumWeightAt(_)
SumWeightAt(ks) ==
  IF ks = {} THEN 0
  ELSE LET k == CHOOSE x \in ks : TRUE
       IN txInfo[k].weight + SumWeightAt(ks \ {k})

\* the txid (wtxid when w) of the ranked entries from k on that are accepted
RECURSIVE AcceptedIds(_, _)
AcceptedIds(k, w) ==
  IF k > Len(txInfo) THEN <<>>
  ELSE (IF k \in AcceptedPos
        THEN <<IF w THEN txInfo[k].wtxid ELSE txInfo[k].txid>>
        ELSE <<>>) \o AcceptedIds(k + 1, w)

\* C4: a candidate is accepted iff its weight is at most the budget that
\* the candidates accepted before it leave; a candidate that does not fit is
\* passed over and the later ones are still tried; the accepted ids are a
\* subsequence of the ranked list.  Of the candidates A (100, 400),
\* B (300, 807) and D (400, 3999000), B then A are accepted, total fee 400.
C4_GreedyAcceptance ==
  /\ \A k \in 1..Len(txInfo) :
       IF k < idx
       THEN k \in AcceptedPos <=>
              txInfo[k].weight <=
                MaxWeight - SumWeightAt({j \in AcceptedPos : j < k})
       ELSE k \notin AcceptedPos
  /\ permtxIds = AcceptedIds(1, FALSE)
  /\ permittedWTxIds = AcceptedIds(1, TRUE)
  /\ (LoopDone /\ files = <<"A", "B", "D">>)
       => permtxIds = <<TxId(TxB), TxId(TxA)>> /\ SumFee(permittingtxs) = 400

\* a candidate that did not fit, ranked before one that was accepted
C4_Witness ==
  /\ LoopDone
  /\ \E k, j \in 1..Len(txInfo) : k < j /\ k \notin AcceptedPos /\ j \in AcceptedPos

\* C8: a candidate of negative fee is never accepted, and its fee never
\* goes into the reward.
C8_NoNegativeFeeAccepted ==
  \A i \in 1..Len(permittingtxs) : permittingtxs[i].fee >= 0

-----------------------------------------------------------------------------
(* Properties of the proof of work *)

\* a is smaller than b at the first index where they differ
LexLess(a, b) ==
  \E k \in 1..Len(a) : a[k] < b[k] /\ \A j \in 1..(k - 1) : a[j] = b[j]

\* C5: when no nonce of the domain gives a hash below the target,
\* proofOfWork ends without raising an error, and no header is serialized
\* with a nonce outside the domain.
C5_ExhaustionRaisesNoError ==
  /\ pc # "threwProofOfWork"
  /\ \A i \in 1..Len(tried) : tried[i].nonce \in 0..MaxU32

\* C6: proofOfWork returns true only when the hash of the header with the
\* current nonce is below the target at the first byte where they differ (a
\* hash equal to the target is refused), and every smaller nonce, from 0 on,
\* was tried once, in rising order, and failed.
C6_FirstNonceBelowTarget ==
  powResult = "true" =>
    /\ Len(tried) = Bh.nonce + 1
    /\ \A i \in 1..Len(tried) : tried[i].nonce = i - 1
    /\ LexLess(tried[Len(tried)].hash, tgtBytes)
    /\ \A i \in 1..(Len(tried) - 1) : ~LexLess(tried[i].hash, tgtBytes)

\* success at the third nonce, after a hash equal to the target was refused
C6_Witness ==
  /\ powResult = "true"
  /\ Bh.nonce = 2
  /\ tried[1].hash = tgtBytes

-----------------------------------------------------------------------------
(* Properties of the Merkle engine *)

RECURSIVE ReversedLeaves(_)
ReversedLeaves(ids) ==
  IF ids = <<>> THEN <<>>
  ELSE <<reversebyte(FromHex(Head(ids)))>> \o ReversedLeaves(Tail(ids))

\* the parents of a level of even length
RECURSIVE Parents(_)
Parents(level) ==
  IF level = <<>> THEN <<>>
  ELSE <<doubleHash(level[1] \o level[2])>> \o Parents(SubSeq(level, 3, Len(level)))

\* the Merkle root of Bitcoin over a level of one node or more
RECURSIVE BitcoinRoot(_)
BitcoinRoot(level) ==
  IF Len(level) = 1 THEN level[1]
  ELSE BitcoinRoot(Parents(IF Len(level) % 2 = 1
                           THEN Append(level, level[Len(level)])
                           ELSE level))

\* C7: newMerkTree returns the Merkle root of Bitcoin over the reversed
\* ids, the last node of every odd level paired with itself: the reversed
\* leaf for one id, doubleHash(l1 || l2) for two, and
\* doubleHash(doubleHash(l1 || l2) || doubleHash(l3 || l3)) for three.
C7_MerkleRoot ==
  pc = "returned" =>
    LET l == ReversedLeaves(leaves)
    IN /\ mkr = BitcoinRoot(l)
       /\ Len(l) = 1 => mkr = l[1]
       /\ Len(l) = 2 => mkr = doubleHash(l[1] \o l[2])
       /\ Len(l) = 3 =>
            mkr = doubleHash(doubleHash(l[1] \o l[2]) \o doubleHash(l[3] \o l[3]))

\* six ids: the second level has three nodes
C7_Witness ==
  /\ pc = "returned"
  /\ Len(leaves) = 6
  /\ leaves[5] # leaves[6]

-----------------------------------------------------------------------------
(* Properties of the run *)

AfterSelection == pc \notin {"prioritize", "accept"}

AfterMerkleRoot == pc \in {"proofOfWork", "write", "done", "threwProofOfWork"}

\* C9: with no candidate the reward is the bare subsidy and both id lists
\* are empty, the commitment is taken over the zero placeholder alone, the
\* Merkle root of the header is the reversed coinbase id, nothing is thrown
\* before the search, and the block written holds the coinbase alone.
C9_EmptyPool ==
  files = <<>> =>
    /\ (pc = "prioritize" /\ caller = "witnessMerk")
         => netReward = SubsidySat /\ txIds = <<>>
    /\ AfterSelection
         => netReward = SubsidySat /\ txIds = <<>> /\ wTxIds = <<>>
    /\ pc # "threwSerialize"
    /\ (AfterSelection /\ pc # "witnessMerk")
         => witCommit = Hex(doubleHash(FromHex(Zero32) \o FromHex(Zero32)))
    /\ AfterMerkleRoot
         => /\ padTxIds = <<TxId(cbTx)>>
            /\ Bh.merkle_root = Hex(reversebyte(FromHex(TxId(cbTx))))
            /\ cbTx.vout[1].value = SubsidySat
    /\ output.written => output.ids = <<TxId(cbTx)>>

\* the block of an empty pool is written
C9_Witness == files = <<>> /\ output.written

\* C10: the output is written only after proofOfWork returned true; it is
\* the 80 bytes (160 hex characters) of the header with the found nonce,
\* then the witness-inclusive serialization of the coinbase, then the ids:
\* the id of the coinbase (of its base serialization, in display order) and
\* the accepted ids in the order of selection; the Merkle root of the
\* header is the root over these ids.
C10_Output ==
  output.written =>
    /\ powResult = "true"
    /\ Bh.nonce = tried[Len(tried)].nonce
    /\ LexLess(tried[Len(tried)].hash, tgtBytes)
    /\ FromHex(output.header) =
         <<Lit(4, HeaderVersion)>> \o FromHex(Zero32) \o FromHex(Bh.merkle_root)
         \o <<Lit(4, Timestamp), Lit(4, HeaderBits), Lit(4, Bh.nonce)>>
    /\ HexChars(output.header) = 160
    /\ output.coinbase = Hex(segwitSerialize(cbTx))
    /\ output.coinbase # Hex(serTransactions(cbTx))
    /\ output.ids = <<Hex(reversebyte(doubleHash(serTransactions(cbTx))))>> \o txIds
    /\ txIds = AcceptedIds(1, FALSE)
    /\ Bh.merkle_root = Hex(BitcoinRoot(ReversedLeaves(output.ids)))

\* a block of the coinbase and two candidates, found at the second nonce
C10_Witness ==
  /\ output.written
  /\ Len(output.ids) = 3
  /\ Bh.nonce = 1

-----------------------------------------------------------------------------
(* Properties of the order of the run *)

\* the reward is a multiple of a half coin that is not a whole coin: it is
\* never 0 once prioritize has returned it
SelectionReturned == netReward # ToSat(0)

CommitmentMade == witCommit # Hex(<<>>)

CoinbaseBuilt == cbTx # NoTx

RootAssigned == Bh.merkle_root # Hex(<<>>)

\* C12: the steps of a run come in the order selection, witness
\* commitment, coinbase, assignment of the Merkle root, nonce search,
\* serialization; merkle_root is assigned once, before the first hash of the
\* header; the search changes the nonce and no other field of the header,
\* and the header written has the fields the search started with.
C12_StepOrder ==
  [][/\ pc \in {"prioritize", "accept"}
          => /\ ~CommitmentMade /\ ~CoinbaseBuilt /\ ~RootAssigned
             /\ tried = <<>> /\ ~output.written
     /\ (netReward' # netReward \/ txIds' # txIds \/ wTxIds' # wTxIds)
          => pc = "accept" /\ ~CommitmentMade
     /\ witCommit' # witCommit
          => /\ SelectionReturned /\ pc = "witnessMerk"
             /\ ~CommitmentMade /\ ~CoinbaseBuilt
     /\ cbTx' # cbTx
          => CommitmentMade /\ ~CoinbaseBuilt /\ ~RootAssigned /\ tried = <<>>
     /\ Bh'.merkle_root # Bh.merkle_root
          => CoinbaseBuilt /\ ~RootAssigned /\ tried = <<>> /\ Bh'.nonce = 0
     /\ tried' # tried
          => /\ RootAssigned /\ ~output.written /\ pc = "proofOfWork"
             /\ Bh'.merkle_root = Bh.merkle_root
     /\ Bh'.nonce # Bh.nonce
          => pc = "proofOfWork" /\ tried' # tried
     /\ Bh'.version = Bh.version
     /\ Bh'.prev_block_hash = Bh.prev_block_hash
     /\ Bh'.timestamp = Bh.timestamp
     /\ Bh'.bits = Bh.bits
     /\ output' # output
          => /\ powResult = "true" /\ tried # <<>> /\ ~output.written
             /\ Bh' = Bh
             /\ FromHex(output'.header) =
                  <<Lit(4, HeaderVersion)>> \o FromHex(Zero32)
                  \o FromHex(Bh.merkle_root)
                  \o <<Lit(4, Timestamp), Lit(4, HeaderBits), Lit(4, Bh.nonce)>>
    ]_vars

\* a block written after the nonce was raised twice
C12_Witness ==
  /\ output.written
  /\ Bh.nonce = 2
  /\ RootAssigned
  /\ Len(files) > 0

=============================================================================
